---- MODULE Spec2Model ----
(***************************************************************************)
(* State-history engine of the drawing application (src/script.js):       *)
(* HistoryModule (snapshot ledger, undo/redo, association rebuilder) and   *)
(* the mutation call sites that record into it.                            *)
(*                                                                         *)
(* The canvas object model is the fabric.js library.  Its part is taken    *)
(* at the interface the source uses:                                       *)
(*   canvas.toJSON([...]) serialises every object of the scene in z-order; *)
(*     of the custom attributes only the two named at script.js:72 are     *)
(*     emitted, and an attribute holding an object is emitted by value     *)
(*     (no identifier is written, and none is ever assigned in the source);*)
(*   canvas.loadFromJSON(state, cb) replaces the scene by freshly built    *)
(*     objects and calls cb later; the source starts loads without waiting *)
(*     for earlier ones, so loads in flight complete in any order;         *)
(*     loading the text of a file sets every key of its objects, an "id"   *)
(*     included, and replaces the scene in the turn that calls cb;         *)
(*   canvas.bringToFront(obj) moves obj to the end of the object list and  *)
(*     appends it when it is not on the canvas;                            *)
(*   shape.getScaledWidth() is the shape's width (scale 1, stroke left     *)
(*     out);                                                               *)
(*   canvas.loadFromJSON(text, cb) parses the text first: for a text that  *)
(*     is not JSON it throws before the canvas is touched;                 *)
(*   FileReader and fabric.Image.fromURL call back in a later turn;        *)
(*   a move or scale gesture on a selected object ends with 'modified'     *)
(*     fired on that object (position is not part of the state: a move     *)
(*     keeps the width);                                                   *)
(*   with canvas.isDrawingMode set, a stroke ends with the path added to   *)
(*     the canvas, then mouse:up is fired.                                 *)
(***************************************************************************)
EXTENDS Integers, Sequences, FiniteSets, TLC

\* depth of the ledger: constructor parameter `limit` (default 50), scaled down
limit == 3
\* largest number of drawables on the canvas
MaxObjects == 2
\* largest number of loadFromJSON calls in flight
MaxPending == 1
\* largest number of loadFromJSON calls in flight while undo and redo calls race
MaxRace == 2
\* largest number of drawables on the canvas while mouse-downs follow each other
MaxDrawn == 4

VARIABLES
    history,        \* this.history: sequence of snapshots (index 0 of the source is index 1 here)
    currentIndex,   \* this.currentIndex, zero-based, -1 when the ledger is empty
    undoDisabled,   \* this.undoBtn.disabled
    redoDisabled,   \* this.redoBtn.disabled
    scene,          \* canvas.getObjects(): live drawables in z-order
    pending,        \* snapshots handed to canvas.loadFromJSON whose callback has not run yet
    started,        \* App.init has run
    lastOp,         \* which handler, ledger call or callback ran last
    pruned,         \* the last record call discarded a redo branch
    run,            \* 0..limit+1: record calls in a row; limit+1+u: more than limit record
                    \* calls in a row followed by u undo calls (u capped at limit)
    shifted,        \* the depth bound has dropped a snapshot from the front at least once
    drawingMode,    \* ShapesModule.drawingMode ("null" when no mode is selected)
    currentlyDrawing, \* ShapesModule.currentlyDrawing
    tempShape,      \* ShapesModule.tempShape: NoTemp for null, else the shape being drawn
    isDrawingMode,  \* canvas.isDrawingMode: the brush or the eraser is armed
    loading,        \* file-derived operations in flight (FileReader / Image.fromURL / loadFromJSON)
    rawRender       \* the last canvas.renderAll() of a load drew a side-channel attribute
                    \* that was still the deserialised value

\* ShapesModule's gesture state and the canvas's free-drawing flag
gestureVars == <<drawingMode, currentlyDrawing, tempShape, isDrawingMode>>

vars == <<history, currentIndex, undoDisabled, redoDisabled, scene, pending,
          started, lastOp, pruned, run, shifted, gestureVars, loading, rawRender>>

Min(a, b) == IF a < b THEN a ELSE b

(***************************************************************************)
(* Drawables and side-channel links                                        *)
(***************************************************************************)
\* value of a property that was never assigned (no object gets an id in the source)
Undef == "undefined"

\* side-channel attribute absent
NoLink == [k |-> "none", oid |-> 0, id |-> Undef]
\* side-channel attribute holding a live object of the canvas model
Ref(o) == [k |-> "ref", oid |-> o, id |-> Undef]
\* side-channel attribute holding the plain deserialised copy of a label
Val(i) == [k |-> "val", oid |-> 0, id |-> i]

\* smallest object identity not carried by a drawable of the scene
FreshOid(sc) ==
    CHOOSE n \in 1..(Len(sc) + 1) :
        /\ \A i \in 1..Len(sc) : sc[i].oid # n
        /\ \A m \in 1..(n - 1) : \E i \in 1..Len(sc) : sc[i].oid = m

\* new fabric.IText('Entrez votre texte', {...}) of addText
NewIText(o) ==
    [oid |-> o, type |-> "i-text", text |-> "Entrez votre texte", id |-> Undef,
     selectable |-> TRUE, mt |-> NoLink, lmt |-> NoLink, lsn |-> 0,
     w |-> 0, fixed |-> FALSE]

\* new fabric.Rect({width: 0, ...}) of onMouseDown; f is fixedHeightRectangle
NewRect(o, f) ==
    [oid |-> o, type |-> "rect", text |-> "", id |-> Undef,
     selectable |-> TRUE, mt |-> NoLink, lmt |-> NoLink, lsn |-> 0,
     w |-> 0, fixed |-> f]

\* new fabric.Text('', {selectable: false, ...}): a measurement label
NewMeasurementText(o) ==
    [oid |-> o, type |-> "text", text |-> "", id |-> Undef,
     selectable |-> FALSE, mt |-> NoLink, lmt |-> NoLink, lsn |-> 0,
     w |-> 0, fixed |-> FALSE]

\* new fabric.Circle({radius: 50, ...}) of addCircle
NewCircle(o) ==
    [oid |-> o, type |-> "circle", text |-> "", id |-> Undef,
     selectable |-> TRUE, mt |-> NoLink, lmt |-> NoLink, lsn |-> 0,
     w |-> 100, fixed |-> FALSE]

\* new fabric.Triangle({width: 100, height: 100, ...}) of addTriangle
NewTriangle(o) ==
    [oid |-> o, type |-> "triangle", text |-> "", id |-> Undef,
     selectable |-> TRUE, mt |-> NoLink, lmt |-> NoLink, lsn |-> 0,
     w |-> 100, fixed |-> FALSE]

\* the fabric.Image handed to the callback of fabric.Image.fromURL
NewImage(o) ==
    [oid |-> o, type |-> "image", text |-> "", id |-> Undef,
     selectable |-> TRUE, mt |-> NoLink, lmt |-> NoLink, lsn |-> 0,
     w |-> 0, fixed |-> FALSE]

\* the fabric.Path the free-drawing brush adds when a stroke ends
NewPath(o) ==
    [oid |-> o, type |-> "path", text |-> "", id |-> Undef,
     selectable |-> TRUE, mt |-> NoLink, lmt |-> NoLink, lsn |-> 0,
     w |-> 0, fixed |-> FALSE]

\* a reference once its target has left the canvas: the target lives on off the canvas
\* (identity 0 is carried by no drawable of a scene)
Stale(sc, l) ==
    IF l.k = "ref" /\ \A i \in 1..Len(sc) : sc[i].oid # l.oid THEN Ref(0) ELSE l

\* ShapesModule.tempShape = null
NoTemp == [k |-> "none", oid |-> 0, label |-> 0, fixed |-> FALSE]
\* ShapesModule.tempShape: the rectangle of identity o being drawn, its label of identity m,
\* and its fixedHeightRectangle flag
Temp(o, m, f) == [k |-> "ref", oid |-> o, label |-> m, fixed |-> f]

\* the shape being drawn once the scene has changed under it: what has left the canvas
\* lives on off the canvas, under identity 0
StaleTemp(sc, t) ==
    LET on(o) == \E i \in 1..Len(sc) : sc[i].oid = o
    IN [t EXCEPT !.oid = IF on(@) THEN @ ELSE 0, !.label = IF on(@) THEN @ ELSE 0]

\* canvas.remove(obj): the drawable of that identity leaves the scene, if it is there;
\* what still refers to it refers to a drawable off the canvas
Remove(sc, o) ==
    LET rest == SelectSeq(sc, LAMBDA x : x.oid # o)
    IN [i \in 1..Len(rest) |->
          [rest[i] EXCEPT !.mt = Stale(rest, @), !.lmt = Stale(rest, @),
                          !.lsn = IF @ = o THEN 0 ELSE @]]

\* canvas.bringToFront(obj): obj moves to the end of the object list
bringToFront(sc, o) ==
    SelectSeq(sc, LAMBDA x : x.oid # o) \o SelectSeq(sc, LAMBDA x : x.oid = o)

(***************************************************************************)
(* Measurements: pixels to centimetres, (x).toFixed(2)                     *)
(***************************************************************************)
\* ShapesModule.pixelsPerCm, in thousandths of a pixel
pixelsPerCm == 37795

\* (h / 100).toFixed(2) for a whole number h of hundredths
Fixed2(h) == ToString(h \div 100) \o "." \o ToString((h % 100) \div 10) \o ToString(h % 10)

\* (px100 / 100 / pixelsPerCm).toFixed(2): a length of px100 hundredths of a pixel
Cm(px100) == Fixed2((px100 * 2000 + pixelsPerCm) \div (2 * pixelsPerCm))

\* the largest r in lo..hi with r * r <= n, by bisection
RECURSIVE Isqrt(_, _, _)
Isqrt(n, lo, hi) ==
    IF lo >= hi THEN lo
    ELSE LET mid == (lo + hi + 1) \div 2
         IN IF mid * mid <= n THEN Isqrt(n, mid, hi) ELSE Isqrt(n, lo, mid - 1)

\* Math.sqrt(n), in hundredths
Sqrt100(n) == Isqrt(n * 10000, 0, 20000)

\* the text updateShapeMeasurements computes for a rectangle of width and height w
RectMeasurements(w) == "L: " \o Cm(w * 100) \o " cm, H: " \o Cm(w * 100) \o " cm"
\* the text updateFixedRectangleMeasurement computes for a width w
FixedRectangleMeasurement(w) == "L: " \o Cm(w * 100) \o " cm"
\* the text updateShapeMeasurements computes for the circle of addCircle (radius 50)
CircleMeasurements == "R: " \o Cm(50 * 100) \o " cm, D: " \o Cm(2 * 50 * 100) \o " cm"
\* the text updateShapeMeasurements computes for the triangle of addTriangle (100 by 100)
TriangleMeasurements ==
    "Côtés: A: " \o Cm(100 * 100) \o " cm, B: " \o Cm(100 * 100)
        \o " cm, C: " \o Cm(Sqrt100(100 * 100 + 100 * 100)) \o " cm"

(***************************************************************************)
(* Snapshot codec: JSON.stringify(canvas.toJSON([...])) and loadFromJSON   *)
(***************************************************************************)
\* a side-channel attribute in the snapshot: a present attribute is written by value.
\* A live label is written through its toObject, which emits no id; a plain value is
\* written as it is
SerLink(l) == IF l.k = "none" THEN NoLink ELSE IF l.k = "val" THEN l ELSE Val(Undef)

SerObj(x) ==
    [type |-> x.type, text |-> x.text, w |-> x.w, mt |-> SerLink(x.mt), lmt |-> SerLink(x.lmt)]

Serialize(sc) == [i \in 1..Len(sc) |-> SerObj(sc[i])]

\* objects rebuilt from a snapshot: fresh identity, library defaults, no listeners
Deserialize(snap) ==
    [i \in 1..Len(snap) |->
        [oid |-> i, type |-> snap[i].type, text |-> snap[i].text, id |-> Undef,
         selectable |-> TRUE, mt |-> snap[i].mt, lmt |-> snap[i].lmt, lsn |-> 0,
         w |-> snap[i].w, fixed |-> FALSE]]

\* objects built by canvas.loadFromJSON from the text of a file: as from a snapshot, but
\* every key of the file's objects is set on the drawable, an "id" included
FromFile(json) ==
    [i \in 1..Len(json) |->
        [oid |-> i, type |-> json[i].type, text |-> json[i].text, id |-> json[i].id,
         selectable |-> TRUE, mt |-> json[i].mt, lmt |-> json[i].lmt, lsn |-> 0,
         w |-> json[i].w, fixed |-> FALSE]]

\* what a render of the scene shows: kind, width and displayed text of each drawable,
\* in z-order
SceneView(sc) ==
    [i \in 1..Len(sc) |-> [type |-> sc[i].type, text |-> sc[i].text, w |-> sc[i].w]]
SnapshotView(snap) ==
    [i \in 1..Len(snap) |-> [type |-> snap[i].type, text |-> snap[i].text, w |-> snap[i].w]]

\* some side-channel attribute of the scene is a deserialised value, not a live drawable
Unresolved(sc) == \E i \in 1..Len(sc) : sc[i].mt.k = "val" \/ sc[i].lmt.k = "val"

(***************************************************************************)
(* HistoryModule                                                           *)
(***************************************************************************)
\* the .id read through a side-channel attribute
LinkId(sc, l) ==
    IF l.k = "ref" /\ \E i \in 1..Len(sc) : sc[i].oid = l.oid
    THEN (CHOOSE x \in {sc[i] : i \in 1..Len(sc)} : x.oid = l.oid).id
    ELSE l.id

\* one attribute of reestablishAssociations: find the first drawable with that id
Relink(sc, l) ==
    IF l.k = "none" THEN l
    ELSE LET hits == {i \in 1..Len(sc) : sc[i].id = LinkId(sc, l)}
         IN IF hits = {} THEN l
            ELSE Ref(sc[CHOOSE i \in hits : \A j \in hits : i <= j].oid)

reestablishAssociations(sc) ==
    [i \in 1..Len(sc) |->
        IF sc[i].type \in {"rect", "circle", "triangle"}
        THEN [sc[i] EXCEPT !.mt = Relink(sc, sc[i].mt), !.lmt = Relink(sc, sc[i].lmt)]
        ELSE sc[i]]

\* updateButtons: the two disabled flags for a ledger (c, h)
updateButtons(c, h) == [undo |-> c <= 0, redo |-> c >= Len(h) - 1]

\* enregistrerEtat with the cursor advanced in both branches of the limit test
enregistrerEtat_alwaysAdvance(h, c, snap) ==
    LET t == IF c < Len(h) - 1 THEN SubSeq(h, 1, c + 1) ELSE h
        p == Append(t, snap)
    IN IF Len(p) > limit
       THEN [history |-> Tail(p), currentIndex |-> c + 1, shift |-> TRUE]
       ELSE [history |-> p, currentIndex |-> c + 1, shift |-> FALSE]

\* enregistrerEtat without the limit test
enregistrerEtat_noShift(h, c, snap) ==
    LET t == IF c < Len(h) - 1 THEN SubSeq(h, 1, c + 1) ELSE h
        p == Append(t, snap)
    IN [history |-> p, currentIndex |-> c + 1, shift |-> FALSE]

\* enregistrerEtat moving the cursor back when it shifts
enregistrerEtat_shiftRewinds(h, c, snap) ==
    LET t == IF c < Len(h) - 1 THEN SubSeq(h, 1, c + 1) ELSE h
        p == Append(t, snap)
    IN IF Len(p) > limit
       THEN [history |-> Tail(p), currentIndex |-> c - 1, shift |-> TRUE]
       ELSE [history |-> p, currentIndex |-> c + 1, shift |-> FALSE]

\* enregistrerEtat without the truncation of the redo branch
enregistrerEtat_noPrune(h, c, snap) ==
    LET p == Append(h, snap)
    IN IF Len(p) > limit
       THEN [history |-> Tail(p), currentIndex |-> c, shift |-> TRUE]
       ELSE [history |-> p, currentIndex |-> c + 1, shift |-> FALSE]

\* enregistrerEtat with the limit test off by one
enregistrerEtat_offByOne(h, c, snap) ==
    LET t == IF c < Len(h) - 1 THEN SubSeq(h, 1, c + 1) ELSE h
        p == Append(t, snap)
    IN IF Len(p) >= limit
       THEN [history |-> Tail(p), currentIndex |-> c, shift |-> TRUE]
       ELSE [history |-> p, currentIndex |-> c + 1, shift |-> FALSE]

\* enregistrerEtat writing the number of the call into the stored state
enregistrerEtat_stamped(h, c, snap) ==
    LET t == IF c < Len(h) - 1 THEN SubSeq(h, 1, c + 1) ELSE h
        stamp == [type |-> "stamp", text |-> ToString(Len(h)), w |-> 0,
                  mt |-> NoLink, lmt |-> NoLink]
        p == Append(t, Append(snap, stamp))
    IN IF Len(p) > limit
       THEN [history |-> Tail(p), currentIndex |-> c, shift |-> TRUE]
       ELSE [history |-> p, currentIndex |-> c + 1, shift |-> FALSE]

\* enregistrerEtat on the ledger (h, c) with canvasState = snap;
\* shift tells which branch of the limit test ran
enregistrerEtat(h, c, snap) ==
    LET t == IF c < Len(h) - 1 THEN SubSeq(h, 1, c + 1) ELSE h
        p == Append(t, snap)
    IN IF Len(p) > limit
       THEN [history |-> Tail(p), currentIndex |-> c, shift |-> TRUE]
       ELSE [history |-> p, currentIndex |-> c + 1, shift |-> FALSE]

\* loadState: the snapshot at the cursor goes to canvas.loadFromJSON
loadState(h, c, p) == Append(p, h[c + 1])

TypeOK ==
    /\ currentIndex \in -1..limit
    /\ Len(history) \in 0..(limit + 1)
    /\ undoDisabled \in BOOLEAN /\ redoDisabled \in BOOLEAN
    /\ (Len(scene) <= MaxObjects \/ Len(scene) <= MaxDrawn)
    /\ (Len(pending) <= MaxPending \/ Len(pending) <= MaxRace)
    /\ started \in BOOLEAN
    /\ currentlyDrawing \in BOOLEAN
    /\ drawingMode \in {"null", "rectangle", "rectangle-fixed-height"}
    /\ tempShape.k \in {"none", "ref"}
    /\ tempShape.fixed \in BOOLEAN
    /\ isDrawingMode \in BOOLEAN
    /\ Len(loading) <= MaxPending
    /\ \A i \in 1..Len(loading) :
          /\ loading[i].op \in {"loadFromJSON", "uploadImage", "addPhotoToCanvas"}
          /\ loading[i].stage \in {"read", "parse", "decode"}
          /\ loading[i].parses \in BOOLEAN
    /\ rawRender \in BOOLEAN

\* state after new App(canvas): new HistoryModule(canvas) on the empty canvas
Init ==
    /\ history = <<>>
    /\ currentIndex = -1
    /\ undoDisabled = updateButtons(-1, <<>>).undo
    /\ redoDisabled = updateButtons(-1, <<>>).redo
    /\ scene = <<>>
    /\ pending = <<>>
    /\ started = FALSE
    /\ lastOp = "constructor"
    /\ pruned = FALSE
    /\ run = 0
    /\ shifted = FALSE
    /\ drawingMode = "null"
    /\ currentlyDrawing = FALSE
    /\ tempShape = NoTemp
    /\ isDrawingMode = FALSE
    /\ loading = <<>>
    /\ rawRender = FALSE

\* a handler's call of enregistrerEtat with the scene sc on the canvas:
\* the new ledger, the refreshed buttons, and the bookkeeping of the call
Recorded(sc) ==
    LET r == enregistrerEtat(history, currentIndex, Serialize(sc))
    IN /\ history' = r.history
       /\ currentIndex' = r.currentIndex
       /\ undoDisabled' = updateButtons(r.currentIndex, r.history).undo
       /\ redoDisabled' = updateButtons(r.currentIndex, r.history).redo
       /\ lastOp' = "record"
       /\ pruned' = (currentIndex < Len(history) - 1)
       /\ run' = Min(limit + 1, (IF run > limit + 1 THEN 0 ELSE run) + 1)
       /\ shifted' = (shifted \/ r.shift)

\* App.init without the record of the initial state
AppInit_noRecord ==
    /\ ~started
    /\ started' = TRUE
    /\ UNCHANGED <<history, currentIndex, undoDisabled, redoDisabled, scene, pending,
                   lastOp, pruned, run, shifted, gestureVars, loading, rawRender>>

\* App.init recording the initial state twice
AppInit_recordsTwice ==
    /\ ~started
    /\ started' = TRUE
    /\ LET r1 == enregistrerEtat(history, currentIndex, Serialize(scene))
           r2 == enregistrerEtat(r1.history, r1.currentIndex, Serialize(scene))
       IN /\ history' = r2.history
          /\ currentIndex' = r2.currentIndex
          /\ undoDisabled' = updateButtons(r2.currentIndex, r2.history).undo
          /\ redoDisabled' = updateButtons(r2.currentIndex, r2.history).redo
          /\ lastOp' = "record"
          /\ pruned' = FALSE
          /\ run' = 2
          /\ shifted' = (r1.shift \/ r2.shift)
    /\ UNCHANGED <<scene, pending, gestureVars, loading, rawRender>>

\* App.init: "Record the initial state"
AppInit ==
    /\ ~started
    /\ started' = TRUE
    /\ Recorded(scene)
    /\ UNCHANGED <<scene, pending, gestureVars, loading, rawRender>>

\* TextModule.addText
addText ==
    /\ started
    /\ Len(scene) + 1 <= MaxObjects
    /\ LET sc == Append(scene, NewIText(FreshOid(scene)))
       IN /\ scene' = sc
          /\ Recorded(sc)
          /\ rawRender' = Unresolved(sc)
    /\ UNCHANGED <<pending, started, gestureVars, loading>>

\* obj.measurementText || obj.lengthMeasurementText
associatedText(x) == IF x.mt.k # "none" THEN x.mt ELSE x.lmt

\* ImportExportModule.deleteSelectedObject / DuplicateModule.deleteSelectedObject
\* with the drawable at position a selected (a = 0: getActiveObject() is null)
deleteSelectedObject(a) ==
    /\ started
    /\ a \in 0..Len(scene)
    /\ IF a = 0
       THEN /\ lastOp' = "deleteNoop"
            /\ UNCHANGED <<history, currentIndex, undoDisabled, redoDisabled, scene,
                           pruned, run, shifted, tempShape, rawRender>>
       ELSE /\ scene[a].selectable
            /\ LET act == scene[a]
                   assoc == IF act.mt.k # "none" THEN act.mt ELSE act.lmt
                   sc1 == IF assoc.k = "ref" THEN Remove(scene, assoc.oid) ELSE scene
                   \* canvas.remove(activeObject) fires 'removed': the listener removes
                   \* its label
                   sc2 == Remove(Remove(sc1, act.oid), act.lsn)
               IN /\ scene' = sc2
                  /\ Recorded(sc2)
                  /\ tempShape' = StaleTemp(sc2, tempShape)
                  /\ rawRender' = Unresolved(sc2)
    /\ UNCHANGED <<pending, started, drawingMode, currentlyDrawing, loading, isDrawingMode>>

\* ImportExportModule.deleteMeasurementText with the drawable at position a selected
\* (a = 0: getActiveObject() is null)
deleteMeasurementText(a) ==
    /\ started
    /\ a \in 0..Len(scene)
    /\ IF a = 0 \/ (a > 0 /\ associatedText(scene[a]).k = "none")
       THEN /\ a > 0 => scene[a].selectable
            /\ lastOp' = "deleteMeasurementNoop"
            /\ UNCHANGED <<history, currentIndex, undoDisabled, redoDisabled, scene,
                           pruned, run, shifted, tempShape, rawRender>>
       ELSE /\ scene[a].selectable
            /\ LET act == scene[a]
                   assoc == associatedText(act)
                   hit == {i \in 1..Len(scene) : assoc.k = "ref" /\ scene[i].oid = assoc.oid}
                   \* canvas.remove(associatedText): nothing happens for an object that
                   \* is not on the canvas; 'removed' fires on one that is
                   sc1 == IF hit = {} THEN scene
                          ELSE LET t == scene[CHOOSE i \in hit : TRUE]
                               IN Remove(Remove(scene, t.oid), t.lsn)
                   \* delete activeObject.measurementText / .lengthMeasurementText
                   sc2 == [i \in 1..Len(sc1) |->
                             IF sc1[i].oid = act.oid
                             THEN [sc1[i] EXCEPT !.mt = NoLink, !.lmt = NoLink]
                             ELSE sc1[i]]
               IN /\ scene' = sc2
                  /\ Recorded(sc2)
                  /\ tempShape' = StaleTemp(sc2, tempShape)
                  /\ rawRender' = Unresolved(sc2)
    /\ UNCHANGED <<pending, started, drawingMode, currentlyDrawing, loading, isDrawingMode>>

\* the clear-canvas click handler; ok is the answer to confirm(...)
clearCanvas(ok) ==
    /\ started
    /\ IF ok
       THEN /\ scene' = <<>>
            /\ Recorded(<<>>)
            /\ tempShape' = StaleTemp(<<>>, tempShape)
            /\ rawRender' = FALSE
            /\ UNCHANGED <<pending, started, drawingMode, currentlyDrawing, loading, isDrawingMode>>
       ELSE UNCHANGED vars

\* annuler discarding the snapshots after the new cursor
annuler_forgetsRedo ==
    /\ started
    /\ Len(pending) < MaxPending
    /\ IF currentIndex > 0
       THEN /\ currentIndex' = currentIndex - 1
            /\ history' = SubSeq(history, 1, currentIndex)
            /\ pending' = loadState(history, currentIndex - 1, pending)
            /\ undoDisabled' = updateButtons(currentIndex - 1, history).undo
            /\ redoDisabled' = updateButtons(currentIndex - 1, history).redo
            /\ lastOp' = "annuler"
       ELSE /\ lastOp' = "annulerNoop"
            /\ UNCHANGED <<history, currentIndex, pending, undoDisabled, redoDisabled>>
    /\ pruned' = FALSE
    /\ run' = IF run >= limit + 1 THEN Min(2 * limit + 1, run + 1) ELSE 0
    /\ UNCHANGED <<scene, started, shifted, gestureVars, loading, rawRender>>

\* annuler reading the snapshot before it moves the cursor
annuler_staleLoad ==
    /\ started
    /\ Len(pending) < MaxPending
    /\ IF currentIndex > 0
       THEN /\ currentIndex' = currentIndex - 1
            /\ pending' = loadState(history, currentIndex, pending)
            /\ undoDisabled' = updateButtons(currentIndex - 1, history).undo
            /\ redoDisabled' = updateButtons(currentIndex - 1, history).redo
            /\ lastOp' = "annuler"
       ELSE /\ lastOp' = "annulerNoop"
            /\ UNCHANGED <<currentIndex, pending, undoDisabled, redoDisabled>>
    /\ pruned' = FALSE
    /\ run' = IF run >= limit + 1 THEN Min(2 * limit + 1, run + 1) ELSE 0
    /\ UNCHANGED <<history, scene, started, shifted, gestureVars, loading, rawRender>>

\* annuler with loadState and updateButtons outside the test of the cursor
annuler_alwaysLoad ==
    /\ started
    /\ Len(pending) < MaxPending
    /\ LET c == IF currentIndex > 0 THEN currentIndex - 1 ELSE currentIndex
       IN /\ currentIndex' = c
          /\ pending' = loadState(history, c, pending)
          /\ undoDisabled' = updateButtons(c, history).undo
          /\ redoDisabled' = updateButtons(c, history).redo
          /\ lastOp' = IF currentIndex > 0 THEN "annuler" ELSE "annulerNoop"
    /\ pruned' = FALSE
    /\ run' = IF run >= limit + 1 THEN Min(2 * limit + 1, run + 1) ELSE 0
    /\ UNCHANGED <<history, scene, started, shifted, gestureVars, loading, rawRender>>

\* HistoryModule.annuler while fewer than cap loads are in flight
annulerWithin(cap) ==
    /\ started
    /\ Len(pending) < cap
    /\ IF currentIndex > 0
       THEN /\ currentIndex' = currentIndex - 1
            /\ pending' = loadState(history, currentIndex - 1, pending)
            /\ undoDisabled' = updateButtons(currentIndex - 1, history).undo
            /\ redoDisabled' = updateButtons(currentIndex - 1, history).redo
            /\ lastOp' = "annuler"
       ELSE /\ lastOp' = "annulerNoop"
            /\ UNCHANGED <<currentIndex, pending, undoDisabled, redoDisabled>>
    /\ pruned' = FALSE
    /\ run' = IF run >= limit + 1 THEN Min(2 * limit + 1, run + 1) ELSE 0
    /\ UNCHANGED <<history, scene, started, shifted, gestureVars, loading, rawRender>>

\* HistoryModule.annuler
annuler == annulerWithin(MaxPending)

\* retablir reading the snapshot before it moves the cursor
retablir_staleLoad ==
    /\ started
    /\ Len(pending) < MaxPending
    /\ IF currentIndex < Len(history) - 1
       THEN /\ currentIndex' = currentIndex + 1
            /\ pending' = loadState(history, currentIndex, pending)
            /\ undoDisabled' = updateButtons(currentIndex + 1, history).undo
            /\ redoDisabled' = updateButtons(currentIndex + 1, history).redo
            /\ lastOp' = "retablir"
            /\ run' = 0
       ELSE /\ lastOp' = "retablirNoop"
            /\ UNCHANGED <<currentIndex, pending, undoDisabled, redoDisabled, run>>
    /\ pruned' = FALSE
    /\ UNCHANGED <<history, scene, started, shifted, gestureVars, loading, rawRender>>

\* retablir moving the cursor to the newest snapshot
retablir_toTail ==
    /\ started
    /\ Len(pending) < MaxPending
    /\ IF currentIndex < Len(history) - 1
       THEN /\ currentIndex' = Len(history) - 1
            /\ pending' = loadState(history, Len(history) - 1, pending)
            /\ undoDisabled' = updateButtons(Len(history) - 1, history).undo
            /\ redoDisabled' = updateButtons(Len(history) - 1, history).redo
            /\ lastOp' = "retablir"
            /\ run' = 0
       ELSE /\ lastOp' = "retablirNoop"
            /\ UNCHANGED <<currentIndex, pending, undoDisabled, redoDisabled, run>>
    /\ pruned' = FALSE
    /\ UNCHANGED <<history, scene, started, shifted, gestureVars, loading, rawRender>>

\* retablir without its call of updateButtons
retablir_noButtons ==
    /\ started
    /\ Len(pending) < MaxPending
    /\ IF currentIndex < Len(history) - 1
       THEN /\ currentIndex' = currentIndex + 1
            /\ pending' = loadState(history, currentIndex + 1, pending)
            /\ lastOp' = "retablir"
            /\ run' = 0
       ELSE /\ lastOp' = "retablirNoop"
            /\ UNCHANGED <<currentIndex, pending, run>>
    /\ pruned' = FALSE
    /\ UNCHANGED <<history, scene, started, shifted, undoDisabled, redoDisabled,
                   gestureVars, loading, rawRender>>

\* HistoryModule.retablir while fewer than cap loads are in flight
retablirWithin(cap) ==
    /\ started
    /\ Len(pending) < cap
    /\ IF currentIndex < Len(history) - 1
       THEN /\ currentIndex' = currentIndex + 1
            /\ pending' = loadState(history, currentIndex + 1, pending)
            /\ undoDisabled' = updateButtons(currentIndex + 1, history).undo
            /\ redoDisabled' = updateButtons(currentIndex + 1, history).redo
            /\ lastOp' = "retablir"
            /\ run' = 0
       ELSE /\ lastOp' = "retablirNoop"
            /\ UNCHANGED <<currentIndex, pending, undoDisabled, redoDisabled, run>>
    /\ pruned' = FALSE
    /\ UNCHANGED <<history, scene, started, shifted, gestureVars, loading, rawRender>>

\* HistoryModule.retablir
retablir == retablirWithin(MaxPending)

\* the callback of loadState for the load in flight at position i
loadCallback(i) ==
    /\ i \in 1..Len(pending)
    /\ scene' = reestablishAssociations(Deserialize(pending[i]))
    \* renderAll runs on the deserialised scene, before reestablishAssociations
    /\ rawRender' = Unresolved(Deserialize(pending[i]))
    /\ tempShape' = StaleTemp(<<>>, tempShape)
    /\ pending' = [j \in 1..(Len(pending) - 1) |-> IF j < i THEN pending[j] ELSE pending[j + 1]]
    /\ lastOp' = IF Len(pending) = 1 /\ lastOp = "annuler" THEN "annulerLoaded"
                 ELSE IF Len(pending) = 1 /\ lastOp = "retablir" THEN "retablirLoaded"
                 ELSE "loaded"
    /\ UNCHANGED <<history, currentIndex, undoDisabled, redoDisabled, started,
                   pruned, run, shifted, drawingMode, currentlyDrawing, loading,
                   isDrawingMode>>

(***************************************************************************)
(* ShapesModule                                                            *)
(***************************************************************************)
\* pointer displacements of a drawing gesture, in pixels (the drag runs along the diagonal)
Widths == {2}

\* the drawable of identity o with its width set to w
SetWidth(sc, o, w) ==
    [i \in 1..Len(sc) |-> IF sc[i].oid = o THEN [sc[i] EXCEPT !.w = w] ELSE sc[i]]

\* the drawable of identity o with its text set to txt
SetText(sc, o, txt) ==
    [i \in 1..Len(sc) |-> IF sc[i].oid = o THEN [sc[i] EXCEPT !.text = txt] ELSE sc[i]]

\* shape.measurementText = label / shape.lengthMeasurementText = label
SetLabel(sc, o, m, f) ==
    [i \in 1..Len(sc) |->
        IF sc[i].oid # o THEN sc[i]
        ELSE IF f THEN [sc[i] EXCEPT !.lmt = Ref(m)] ELSE [sc[i] EXCEPT !.mt = Ref(m)]]

\* shape.on('removed', () => canvas.remove(measurementText)) with the label captured
SetListener(sc, o, m) ==
    [i \in 1..Len(sc) |-> IF sc[i].oid = o THEN [sc[i] EXCEPT !.lsn = m] ELSE sc[i]]

\* ShapesModule.setDrawingMode, from the two rectangle buttons
setDrawingMode(mode) ==
    /\ started
    /\ drawingMode' = mode
    /\ lastOp' = "setDrawingMode"
    /\ UNCHANGED <<history, currentIndex, undoDisabled, redoDisabled, scene, pending,
                   started, pruned, run, shifted, currentlyDrawing, tempShape,
                   loading, rawRender, isDrawingMode>>

\* ShapesModule.onMouseDown while the canvas has room for a rectangle and its label
\* among cap drawables
onMouseDownWithin(cap) ==
    /\ started
    /\ drawingMode # "null"
    /\ Len(scene) + 2 <= cap
    /\ LET f == (drawingMode = "rectangle-fixed-height")
           o == FreshOid(scene)
           sc1 == Append(scene, NewRect(o, f))
           m == FreshOid(sc1)
           sc2 == Append(sc1, NewMeasurementText(m))
       IN /\ scene' = SetLabel(sc2, o, m, f)
          /\ tempShape' = Temp(o, m, f)
    /\ currentlyDrawing' = TRUE
    /\ lastOp' = "mouseDown"
    /\ UNCHANGED <<history, currentIndex, undoDisabled, redoDisabled, pending,
                   started, pruned, run, shifted, drawingMode, loading, rawRender,
                   isDrawingMode>>

\* ShapesModule.onMouseDown
onMouseDown == onMouseDownWithin(MaxObjects)

\* onMouseMove recording the state after each move
onMouseMove_records(d) ==
    /\ started
    /\ currentlyDrawing
    /\ tempShape.k = "ref"
    /\ LET t == tempShape
           sc1 == SetWidth(scene, t.oid, d)
           labelled == (drawingMode = "rectangle-fixed-height") = t.fixed
           txt == IF t.fixed THEN FixedRectangleMeasurement(d) ELSE RectMeasurements(d)
           m == IF t.label # 0 THEN t.label ELSE FreshOid(sc1)
           sc2 == IF ~labelled THEN sc1
                  ELSE IF t.label # 0 THEN bringToFront(SetText(sc1, m, txt), m)
                  ELSE Append(SetLabel(sc1, t.oid, m, t.fixed),
                              [NewMeasurementText(m) EXCEPT !.text = txt])
       IN /\ Len(sc2) <= MaxObjects
          /\ scene' = sc2
          /\ tempShape' = IF labelled THEN [t EXCEPT !.label = m] ELSE t
          /\ rawRender' = Unresolved(sc2)
          /\ LET r == enregistrerEtat(history, currentIndex, Serialize(sc2))
             IN /\ history' = r.history
                /\ currentIndex' = r.currentIndex
                /\ undoDisabled' = updateButtons(r.currentIndex, r.history).undo
                /\ redoDisabled' = updateButtons(r.currentIndex, r.history).redo
                /\ shifted' = (shifted \/ r.shift)
    /\ lastOp' = "mouseMove"
    /\ UNCHANGED <<pending, started, pruned, run, drawingMode, currentlyDrawing, loading, isDrawingMode>>

\* ShapesModule.onMouseMove with the pointer d pixels right of and below the start point
onMouseMove(d) ==
    /\ started
    /\ currentlyDrawing
    /\ tempShape.k = "ref"
    /\ LET t == tempShape
           sc1 == SetWidth(scene, t.oid, d)
           \* the attribute the mode reads is the one the shape was given
           labelled == (drawingMode = "rectangle-fixed-height") = t.fixed
           txt == IF t.fixed THEN FixedRectangleMeasurement(d) ELSE RectMeasurements(d)
           m == IF t.label # 0 THEN t.label ELSE FreshOid(sc1)
           sc2 == IF ~labelled THEN sc1
                  ELSE IF t.label # 0 THEN bringToFront(SetText(sc1, m, txt), m)
                  \* bringToFront puts a label that is off the canvas back on it
                  ELSE Append(SetLabel(sc1, t.oid, m, t.fixed),
                              [NewMeasurementText(m) EXCEPT !.text = txt])
       IN /\ Len(sc2) <= MaxObjects
          /\ scene' = sc2
          /\ tempShape' = IF labelled THEN [t EXCEPT !.label = m] ELSE t
          /\ rawRender' = Unresolved(sc2)
    /\ lastOp' = "mouseMove"
    /\ UNCHANGED <<history, currentIndex, undoDisabled, redoDisabled, pending,
                   started, pruned, run, shifted, drawingMode, currentlyDrawing, loading,
                   isDrawingMode>>

\* ShapesModule.onMouseUp, with the mouse:up handler of BrushModule.setupMouseUp
onMouseUp ==
    /\ started
    /\ currentlyDrawing
    /\ currentlyDrawing' = FALSE
    /\ drawingMode' = "null"
    /\ IF tempShape.k = "ref"
       THEN LET sc == SetListener(scene, tempShape.oid, tempShape.label)
            IN /\ scene' = sc
               /\ Recorded(sc)
               /\ tempShape' = NoTemp
       ELSE /\ lastOp' = "mouseUp"
            /\ UNCHANGED <<history, currentIndex, undoDisabled, redoDisabled, scene,
                           pruned, run, shifted, tempShape>>
    \* BrushModule's handler of the same mouse:up event
    /\ isDrawingMode' = FALSE
    /\ UNCHANGED <<pending, started, loading, rawRender>>

\* ShapesModule.addCircle / addTriangle with addShapeMeasurements: shape is the new
\* drawable, measurements the text updateShapeMeasurements computes for it
addShape(shape, measurements) ==
    /\ started
    /\ Len(scene) + 2 <= MaxObjects
    /\ LET sc1 == Append(scene, shape)
           \* enregistrerEtat() of addCircle / addTriangle
           r1 == enregistrerEtat(history, currentIndex, Serialize(sc1))
           m == FreshOid(sc1)
           sc2 == Append(sc1, NewMeasurementText(m))
           \* enregistrerEtat() of addShapeMeasurements
           r2 == enregistrerEtat(r1.history, r1.currentIndex, Serialize(sc2))
           sc3 == bringToFront(SetText(sc2, m, measurements), m)
           sc4 == SetListener(SetLabel(sc3, shape.oid, m, FALSE), shape.oid, m)
           run1 == Min(limit + 1, (IF run > limit + 1 THEN 0 ELSE run) + 1)
       IN /\ scene' = sc4
          /\ history' = r2.history
          /\ currentIndex' = r2.currentIndex
          /\ undoDisabled' = updateButtons(r2.currentIndex, r2.history).undo
          /\ redoDisabled' = updateButtons(r2.currentIndex, r2.history).redo
          /\ lastOp' = "record"
          /\ pruned' = FALSE
          /\ run' = Min(limit + 1, run1 + 1)
          /\ shifted' = (shifted \/ r1.shift \/ r2.shift)
          /\ rawRender' = Unresolved(sc4)
    /\ UNCHANGED <<pending, started, gestureVars, loading>>

addCircle == addShape(NewCircle(FreshOid(scene)), CircleMeasurements)

addTriangle == addShape(NewTriangle(FreshOid(scene)), TriangleMeasurements)

\* widths a shape is scaled to with its handles (the width it has: a move)
ScaledWidths == {50, 100}

\* the text the 'modified' listener of the shape x computes once x is d pixels wide:
\* updateFixedRectangleMeasurement for a fixed-height rectangle, else
\* updateShapeMeasurements by type
ScaledMeasurements(x, d) ==
    IF x.fixed THEN FixedRectangleMeasurement(d)
    ELSE IF x.type = "rect" THEN RectMeasurements(d)
    ELSE IF x.type = "circle"
    THEN "R: " \o Cm(d * 50) \o " cm, D: " \o Cm(d * 100) \o " cm"
    ELSE IF x.type = "triangle"
    THEN "Côtés: A: " \o Cm(d * 100) \o " cm, B: " \o Cm(d * 100)
             \o " cm, C: " \o Cm(Sqrt100(d * d + d * d)) \o " cm"
    ELSE ""

\* the end of a move or scale gesture on the drawable at position a, d pixels wide
\* after it: fabric fires 'modified' on the drawable, and the listener of
\* addShapeMeasurementListeners / addFixedRectangleMeasurementListeners, when the
\* drawable has one, runs updateShapeMeasurements / updateFixedRectangleMeasurement
objectModified(a, d) ==
    /\ started
    /\ ~isDrawingMode /\ ~currentlyDrawing
    /\ a \in 1..Len(scene)
    /\ scene[a].selectable
    /\ LET x == scene[a]
           m == x.lsn
           sc1 == SetWidth(scene, x.oid, d)
           txt == ScaledMeasurements(x, d)
           sc2 == IF m = 0 THEN sc1
                  ELSE IF \E i \in 1..Len(sc1) : sc1[i].oid = m
                  THEN bringToFront(SetText(sc1, m, txt), m)
                  \* bringToFront puts a label that is off the canvas back on it
                  ELSE Append(sc1, [NewMeasurementText(m) EXCEPT !.text = txt])
       IN /\ Len(sc2) <= MaxObjects
          /\ scene' = sc2
          /\ rawRender' = Unresolved(sc2)
    /\ lastOp' = "modified"
    /\ UNCHANGED <<history, currentIndex, undoDisabled, redoDisabled, pending,
                   started, pruned, run, shifted, gestureVars, loading>>

(***************************************************************************)
(* BrushModule                                                             *)
(***************************************************************************)
\* the click handlers of setupBrush and of setupEraser: both arm free drawing
\* (the colour and the width of the brush are not part of the state)
armBrush(tool) ==
    /\ started
    /\ isDrawingMode' = TRUE
    /\ lastOp' = tool
    /\ UNCHANGED <<history, currentIndex, undoDisabled, redoDisabled, scene, pending,
                   started, pruned, run, shifted, drawingMode, currentlyDrawing, tempShape,
                   loading, rawRender>>

setupBrush == armBrush("brush")

setupEraser == armBrush("eraser")

\* the end of a stroke drawn with no shape mode selected: fabric adds the path to the
\* canvas, then fires mouse:up, where the handler of setupMouseUp disarms free
\* drawing and ShapesModule.onMouseUp returns at once
strokeEnd ==
    /\ started
    /\ isDrawingMode
    /\ drawingMode = "null" /\ ~currentlyDrawing
    /\ Len(scene) + 1 <= MaxObjects
    /\ scene' = Append(scene, NewPath(FreshOid(scene)))
    /\ isDrawingMode' = FALSE
    /\ lastOp' = IF lastOp = "eraser" THEN "eraserStroke" ELSE "brushStroke"
    /\ UNCHANGED <<history, currentIndex, undoDisabled, redoDisabled, pending,
                   started, pruned, run, shifted, drawingMode, currentlyDrawing, tempShape,
                   loading, rawRender>>

(***************************************************************************)
(* ImportExportModule and PhotoPaletteModule: file-derived mutations       *)
(***************************************************************************)
\* a file whose rectangle names a label, by id, that the file does not hold
DanglingFile ==
    <<[type |-> "rect", text |-> "", w |-> 1, id |-> Undef, mt |-> Val("t1"), lmt |-> NoLink]>>

\* a file whose rectangle names, by id, the label that follows it
LabelledFile ==
    <<[type |-> "rect", text |-> "", w |-> 2, id |-> "r1", mt |-> Val("t1"), lmt |-> NoLink],
      [type |-> "text", text |-> RectMeasurements(2), w |-> 0, id |-> "t1",
       mt |-> NoLink, lmt |-> NoLink]>>

\* the JSON files offered to the load input
Files == {DanglingFile, LabelledFile}

\* loading without its entry at position i
Settled(i) == [j \in 1..(Len(loading) - 1) |-> IF j < i THEN loading[j] ELSE loading[j + 1]]

\* a file-derived operation starts: nothing but the operation in flight changes.
\* file is what the text of the file describes, parses whether JSON.parse accepts the text
Started(op, stage, file, parses) ==
    /\ started
    /\ Len(loading) < MaxPending
    /\ loading' = Append(loading, [op |-> op, stage |-> stage, file |-> file,
                                   parses |-> parses])
    /\ lastOp' = op
    /\ UNCHANGED <<history, currentIndex, undoDisabled, redoDisabled, scene, pending,
                   started, pruned, run, shifted, gestureVars, rawRender>>

\* ImportExportModule.loadFromJSON: the change handler hands the file to a FileReader
loadFromJSON(f) == Started("loadFromJSON", "read", f, TRUE)

\* ImportExportModule.loadFromJSON handed a file whose text is not JSON
loadMalformedJSON == Started("loadFromJSON", "read", <<>>, FALSE)

\* ImportExportModule.uploadImage: the change handler hands the file to a FileReader
uploadImage == Started("uploadImage", "read", <<>>, TRUE)

\* PhotoPaletteModule.addPhotoToCanvas: fabric.Image.fromURL starts
addPhotoToCanvas == Started("addPhotoToCanvas", "decode", <<>>, TRUE)

\* reader.onload in which canvas.loadFromJSON clears the canvas before it parses the text
readerOnload_clearsFirst(i) ==
    /\ i \in 1..Len(loading)
    /\ loading[i].stage = "read"
    /\ IF loading[i].op = "loadFromJSON" /\ ~loading[i].parses
       THEN /\ loading' = Settled(i)
            /\ lastOp' = "loadError"
            /\ scene' = <<>>
            /\ tempShape' = StaleTemp(<<>>, tempShape)
       ELSE /\ loading' = [loading EXCEPT ![i].stage =
                              IF loading[i].op = "loadFromJSON" THEN "parse" ELSE "decode"]
            /\ lastOp' = "readerOnload"
            /\ UNCHANGED <<scene, tempShape>>
    /\ UNCHANGED <<history, currentIndex, undoDisabled, redoDisabled, pending,
                   started, pruned, run, shifted, drawingMode, currentlyDrawing, rawRender,
                   isDrawingMode>>

\* reader.onload of loadFromJSON and of uploadImage: canvas.loadFromJSON or
\* fabric.Image.fromURL starts. For a text that is not JSON, JSON.parse inside
\* canvas.loadFromJSON throws before the canvas is touched: the exception leaves
\* reader.onload, which has no try/catch, and the callback is never called
readerOnload(i) ==
    /\ i \in 1..Len(loading)
    /\ loading[i].stage = "read"
    /\ IF loading[i].op = "loadFromJSON" /\ ~loading[i].parses
       THEN /\ loading' = Settled(i)
            /\ lastOp' = "loadError"
       ELSE /\ loading' = [loading EXCEPT ![i].stage =
                              IF loading[i].op = "loadFromJSON" THEN "parse" ELSE "decode"]
            /\ lastOp' = "readerOnload"
    /\ UNCHANGED <<history, currentIndex, undoDisabled, redoDisabled, scene, pending,
                   started, pruned, run, shifted, gestureVars, rawRender>>

\* the callback of canvas.loadFromJSON in ImportExportModule.loadFromJSON, which
\* leaves out enregistrerEtat
jsonLoaded_noRecord(i) ==
    /\ i \in 1..Len(loading)
    /\ loading[i].stage = "parse"
    /\ scene' = FromFile(loading[i].file)
    /\ rawRender' = Unresolved(FromFile(loading[i].file))
    /\ tempShape' = StaleTemp(<<>>, tempShape)
    /\ loading' = Settled(i)
    /\ lastOp' = "loaded"
    /\ UNCHANGED <<history, currentIndex, undoDisabled, redoDisabled, pending,
                   started, pruned, run, shifted, drawingMode, currentlyDrawing,
                   isDrawingMode>>

\* the callback of canvas.loadFromJSON in ImportExportModule.loadFromJSON:
\* the scene is the file's; renderAll, alert, enregistrerEtat
jsonLoaded(i) ==
    /\ i \in 1..Len(loading)
    /\ loading[i].stage = "parse"
    /\ LET sc == FromFile(loading[i].file)
       IN /\ scene' = sc
          /\ rawRender' = Unresolved(sc)
          /\ Recorded(sc)
    /\ tempShape' = StaleTemp(<<>>, tempShape)
    /\ loading' = Settled(i)
    /\ UNCHANGED <<pending, started, drawingMode, currentlyDrawing, isDrawingMode>>

\* the callback of fabric.Image.fromURL in uploadImage and in addPhotoToCanvas:
\* img.set, canvas.add, renderAll, enregistrerEtat
imageLoaded(i) ==
    /\ i \in 1..Len(loading)
    /\ loading[i].stage = "decode"
    /\ Len(scene) + 1 <= MaxObjects
    /\ LET sc == Append(scene, NewImage(FreshOid(scene)))
       IN /\ scene' = sc
          /\ rawRender' = Unresolved(sc)
          /\ Recorded(sc)
    /\ loading' = Settled(i)
    /\ UNCHANGED <<pending, started, gestureVars>>

Next ==
    \/ AppInit
    \/ addText
    \/ \E a \in 1..MaxObjects : deleteSelectedObject(a)
    \/ \E ok \in BOOLEAN : clearCanvas(ok)
    \/ annuler
    \/ retablir
    \/ \E i \in 1..MaxPending : loadCallback(i)

Spec == Init /\ [][Next]_vars

\* the application with the rectangle drawing gestures in use
NextShapes ==
    \/ AppInit
    \/ \E mode \in {"rectangle", "rectangle-fixed-height"} : setDrawingMode(mode)
    \/ onMouseDown
    \/ \E d \in Widths : onMouseMove(d)
    \/ onMouseUp
    \/ annuler
    \/ retablir
    \/ \E i \in 1..MaxPending : loadCallback(i)

SpecShapes == Init /\ [][NextShapes]_vars

\* the application with the rectangle drawing gestures and the delete button in use
NextGesture ==
    \/ AppInit
    \/ \E mode \in {"rectangle", "rectangle-fixed-height"} : setDrawingMode(mode)
    \/ onMouseDown
    \/ \E d \in Widths : onMouseMove(d)
    \/ onMouseUp
    \/ \E a \in 0..MaxObjects : deleteSelectedObject(a)

SpecGesture == Init /\ [][NextGesture]_vars

\* the application with the circle and triangle buttons in use
NextAdd ==
    \/ AppInit
    \/ addCircle
    \/ addTriangle
    \/ \E a \in 1..MaxObjects : deleteSelectedObject(a)
    \/ annuler
    \/ retablir
    \/ \E i \in 1..MaxPending : loadCallback(i)

SpecAdd == Init /\ [][NextAdd]_vars

\* the application with the file inputs and the photo palette in use
NextFiles ==
    \/ AppInit
    \/ \E f \in Files : loadFromJSON(f)
    \/ uploadImage
    \/ addPhotoToCanvas
    \/ \E i \in 1..MaxPending : readerOnload(i)
    \/ \E i \in 1..MaxPending : jsonLoaded(i)
    \/ \E i \in 1..MaxPending : imageLoaded(i)
    \/ addText
    \/ annuler
    \/ retablir
    \/ \E i \in 1..MaxPending : loadCallback(i)

SpecFiles == Init /\ [][NextFiles]_vars

\* the application with the file inputs, the photo palette and the text button in use
NextImport ==
    \/ AppInit
    \/ \E f \in Files : loadFromJSON(f)
    \/ loadMalformedJSON
    \/ uploadImage
    \/ addPhotoToCanvas
    \/ \E i \in 1..MaxPending : readerOnload(i)
    \/ \E i \in 1..MaxPending : jsonLoaded(i)
    \/ \E i \in 1..MaxPending : imageLoaded(i)
    \/ addText

SpecImport == Init /\ [][NextImport]_vars

\* the application with the shape buttons, the selection handles, the brush and the
\* eraser in use
NextEdit ==
    \/ AppInit
    \/ addCircle
    \/ addTriangle
    \/ \E a \in 1..MaxObjects, d \in ScaledWidths : objectModified(a, d)
    \/ setupBrush
    \/ setupEraser
    \/ strokeEnd
    \/ \E a \in 1..MaxObjects : deleteSelectedObject(a)

SpecEdit == Init /\ [][NextEdit]_vars

\* undo and redo clicked faster than the loads complete; states are recorded only
\* while no load is in flight
NextRace ==
    \/ AppInit
    \/ (pending = <<>> /\ addText)
    \/ annulerWithin(MaxRace)
    \/ retablirWithin(MaxRace)
    \/ \E i \in 1..MaxRace : loadCallback(i)

SpecRace == Init /\ [][NextRace]_vars

\* the application with the rectangle button, the delete button and undo in use
NextDelete ==
    \/ AppInit
    \/ setDrawingMode("rectangle")
    \/ onMouseDown
    \/ \E d \in Widths : onMouseMove(d)
    \/ onMouseUp
    \/ \E a \in 0..MaxObjects : deleteSelectedObject(a)
    \/ annuler
    \/ \E i \in 1..MaxPending : loadCallback(i)

SpecDelete == Init /\ [][NextDelete]_vars

\* the application with the rectangle button, the delete-measurement button and undo
\* in use
NextUnlabel ==
    \/ AppInit
    \/ setDrawingMode("rectangle")
    \/ onMouseDown
    \/ \E d \in Widths : onMouseMove(d)
    \/ onMouseUp
    \/ \E a \in 0..MaxObjects : deleteMeasurementText(a)
    \/ annuler
    \/ \E i \in 1..MaxPending : loadCallback(i)

SpecUnlabel == Init /\ [][NextUnlabel]_vars

\* the application with the rectangle button, the selection handles, the delete button
\* and undo in use
NextRestore ==
    \/ AppInit
    \/ setDrawingMode("rectangle")
    \/ onMouseDown
    \/ \E d \in Widths : onMouseMove(d)
    \/ onMouseUp
    \/ \E a \in 1..MaxObjects : objectModified(a, 50)
    \/ \E a \in 1..MaxObjects : deleteSelectedObject(a)
    \/ annuler
    \/ \E i \in 1..MaxPending : loadCallback(i)

SpecRestore == Init /\ [][NextRestore]_vars

\* the application with the rectangle buttons in use and the mouse pressed again before
\* it is released
NextDouble ==
    \/ AppInit
    \/ \E mode \in {"rectangle", "rectangle-fixed-height"} : setDrawingMode(mode)
    \/ onMouseDownWithin(MaxDrawn)
    \/ \E d \in Widths : onMouseMove(d)
    \/ onMouseUp

SpecDouble == Init /\ [][NextDouble]_vars

\* the application with the shape buttons, the clear button and undo in use
NextClear ==
    \/ AppInit
    \/ addCircle
    \/ addTriangle
    \/ \E ok \in BOOLEAN : clearCanvas(ok)
    \/ annuler
    \/ \E i \in 1..MaxPending : loadCallback(i)

SpecClear == Init /\ [][NextClear]_vars

(***************************************************************************)
(* Properties of the ledger                                                *)
(***************************************************************************)
\* the guards of annuler and retablir (canUndo / canRedo of the ledger)
canUndo == currentIndex > 0
canRedo == currentIndex < Len(history) - 1

\* C1: whenever the ledger is non-empty, 0 <= cursor < number of snapshots.
C1_CursorInRange ==
    Len(history) > 0 => (0 <= currentIndex /\ currentIndex < Len(history))

\* the cursor sits on the oldest of several snapshots after an undo
C1_Witness ==
    Len(history) = limit /\ currentIndex = 0 /\ lastOp = "annuler" /\ shifted

\* C2: the ledger never retains more than limit snapshots.
C2_DepthNeverExceeded == Len(history) <= limit

\* a record call that found the ledger full has returned
C2_Witness == lastOp = "record" /\ shifted /\ Len(history) = limit

\* C3: right after a record call the cursor is on the newest snapshot, redo unavailable.
C3_RecordLeavesCursorAtTail ==
    lastOp = "record" => (currentIndex = Len(history) - 1 /\ ~canRedo /\ redoDisabled)

\* a record call made away from the tail, after the bound has already evicted
C3_Witness == lastOp = "record" /\ pruned /\ shifted

\* C4: a record call made with cursor c below the tail keeps snapshots 0..c as they
\* were, discards those after c, puts the new snapshot last, and leaves redo unavailable.
C4_RedoBranchPruned ==
    [][(lastOp' = "record" /\ currentIndex < Len(history) - 1) =>
          /\ Len(history') = currentIndex + 2
          /\ SubSeq(history', 1, currentIndex + 1) = SubSeq(history, 1, currentIndex + 1)
          /\ history'[currentIndex + 2] = Serialize(scene')
          /\ currentIndex' = currentIndex + 1
          /\ ~canRedo'
          /\ redoDisabled']_vars

\* a redo branch of at least one snapshot has just been discarded by a record call
C4_Witness == lastOp = "record" /\ pruned /\ Len(history) >= 2 /\ Len(history) < limit

\* C5: after more than limit record calls in a row the ledger holds exactly limit
\* snapshots; each record on the full ledger drops exactly the oldest one; and u undo
\* calls after that leave the cursor at limit-1-u, stopping at 0 from the (limit-1)th on.
C5_DepthBound ==
    /\ [](run >= limit + 1 =>
            /\ Len(history) = limit
            /\ currentIndex = limit - 1 - Min(run - (limit + 1), limit - 1))
    /\ [][(lastOp' = "record" /\ Len(history) = limit /\ currentIndex = limit - 1) =>
            history' = Append(Tail(history), Serialize(scene'))]_vars

\* more than limit record calls, then limit undo calls: the last one changed nothing
C5_Witness == run = 2 * limit + 1 /\ currentIndex = 0 /\ lastOp = "annulerNoop"

\* C6: undo with cursor > 0 moves the cursor down by one and starts the load of the
\* snapshot at the new cursor; when that load completes with nothing in between, the
\* scene shows that snapshot.
C6_UndoLoadsPrevious ==
    /\ [][(lastOp' \in {"annuler", "annulerNoop"} /\ currentIndex > 0) =>
            /\ currentIndex' = currentIndex - 1
            /\ history' = history
            /\ pending' = Append(pending, history[currentIndex' + 1])]_vars
    /\ [](lastOp = "annulerLoaded" =>
            SceneView(scene) = SnapshotView(history[currentIndex + 1]))

\* the load of an undo has completed on a snapshot that is neither the oldest nor blank
C6_Witness ==
    lastOp = "annulerLoaded" /\ currentIndex > 0 /\ canRedo /\ scene # <<>>

\* C7: redo with cursor below the tail moves the cursor up by one and starts the load
\* of the snapshot at the new cursor; when that load completes with nothing in between,
\* the scene shows that snapshot.
C7_RedoLoadsNext ==
    /\ [][(lastOp' \in {"retablir", "retablirNoop"} /\ currentIndex < Len(history) - 1) =>
            /\ currentIndex' = currentIndex + 1
            /\ history' = history
            /\ pending' = Append(pending, history[currentIndex' + 1])]_vars
    /\ [](lastOp = "retablirLoaded" =>
            SceneView(scene) = SnapshotView(history[currentIndex + 1]))

\* the load of a redo has completed on a snapshot that is neither the newest nor blank
C7_Witness ==
    lastOp = "retablirLoaded" /\ canUndo /\ canRedo /\ scene # <<>>

\* C8: undo at cursor 0 and redo at the tail change neither the snapshots, nor the
\* cursor, nor the scene, nor the loads in flight, nor the controls.
C8_BoundaryNoOps ==
    [][(\/ lastOp' \in {"annuler", "annulerNoop"} /\ currentIndex = 0
        \/ lastOp' \in {"retablir", "retablirNoop"} /\ currentIndex = Len(history) - 1) =>
          UNCHANGED <<history, currentIndex, scene, pending, undoDisabled, redoDisabled>>]_vars

\* undo was called at cursor 0 of a ledger with several snapshots and a non-blank scene
C8_Witness ==
    lastOp = "annulerNoop" /\ currentIndex = 0 /\ Len(history) > 1 /\ scene # <<>>

\* C9: the undo control is disabled exactly when cursor <= 0 and the redo control
\* exactly when cursor >= length-1, from the constructor on.
C9_ButtonsAgree ==
    /\ undoDisabled = ~canUndo
    /\ redoDisabled = ~canRedo

\* both controls enabled: the cursor is strictly inside the ledger
C9_Witness == ~undoDisabled /\ ~redoDisabled /\ lastOp \in {"annuler", "retablir"}

\* C10 as stated: once undo has reached cursor 0 and its load has completed, the scene
\* is blank.
C10_UndoAlwaysReachesBlank ==
    (lastOp = "annulerLoaded" /\ currentIndex = 0) => scene = <<>>

\* C10 amended: once undo has reached cursor 0 and its load has completed, the scene
\* shows the oldest retained snapshot, which is the blank baseline as long as the depth
\* bound has not dropped a snapshot.
C10_UndoReachesOldestRetained ==
    (lastOp = "annulerLoaded" /\ currentIndex = 0) =>
        /\ SceneView(scene) = SnapshotView(history[1])
        /\ ~shifted => (scene = <<>> /\ history[1] = Serialize(<<>>))

\* undo has come back to the baseline from a ledger of several snapshots
C10_Witness ==
    lastOp = "annulerLoaded" /\ currentIndex = 0 /\ ~shifted /\ Len(history) = limit

\* C11: the ledger starts empty, with no valid cursor; application start performs exactly
\* one record, of the empty scene, after which the ledger holds one snapshot, the cursor
\* is 0 and neither undo nor redo is available
C11_InitRecordsOnce ==
    /\ [](~started => /\ history = <<>>
                      /\ currentIndex = -1
                      /\ scene = <<>>)
    /\ [][(~started /\ started') =>
             /\ history' = <<Serialize(<<>>)>>
             /\ currentIndex' = 0
             /\ ~canUndo' /\ ~canRedo'
             /\ undoDisabled' /\ redoDisabled']_vars

\* the application has just started: the single record of App.init has been taken
C11_Witness ==
    /\ started /\ lastOp = "record" /\ run = 1
    /\ history = <<Serialize(<<>>)>> /\ currentIndex = 0
    /\ undoDisabled /\ redoDisabled

(***************************************************************************)
(* Properties of the side-channel associations                             *)
(***************************************************************************)
\* the kinds of drawable that carry a measurement label
IsShape(x) == x.type \in {"rect", "circle", "triangle"}

\* l is a reference to a text label that is a member of the scene
RefersToLabel(sc, l) ==
    /\ l.k = "ref"
    /\ \E j \in 1..Len(sc) : sc[j].oid = l.oid /\ sc[j].type = "text"

\* C12: association closure. A shape whose side-channel attribute pointed to a label of
\* the scene when the snapshot was recorded has, after record, undo and redo with the
\* loads completed, an attribute that refers to a text label which is a member of the
\* reloaded scene, not a detached copy and not another drawable
C12_AssociationClosure ==
    (lastOp = "retablirLoaded" /\ pending = <<>>) =>
        \A i \in 1..Len(scene) :
            (/\ IsShape(scene[i])
             /\ associatedText(scene[i]).k # "none"
             /\ \E j \in 1..Len(scene) : scene[j].type = "text")
            => RefersToLabel(scene, associatedText(scene[i]))

\* no load is in flight and no drawing gesture is in progress
Quiescent == pending = <<>> /\ loading = <<>> /\ ~currentlyDrawing

\* C13: in every quiescent state each drawable's measurementText and
\* lengthMeasurementText, when present, refers to a text label that is a member of the
\* current scene, never to a non-label drawable and never to the shape itself
C13_AttributesReferToLabels ==
    Quiescent =>
        \A i \in 1..Len(scene) :
            /\ scene[i].mt.k # "none" =>
                   RefersToLabel(scene, scene[i].mt) /\ scene[i].mt.oid # scene[i].oid
            /\ scene[i].lmt.k # "none" =>
                   RefersToLabel(scene, scene[i].lmt) /\ scene[i].lmt.oid # scene[i].oid

\* C14: every drawable carries an identifier, distinct from every other drawable's, so
\* that a lookup by identifier matches at most one drawable
C14_DistinctIdentifiers ==
    \A i \in 1..Len(scene) :
        /\ scene[i].id # Undef
        /\ \A j \in 1..Len(scene) : i # j => scene[i].id # scene[j].id

\* C15: dangling reference tolerance. When a loaded snapshot holds a shape whose label
\* identifier matches no drawable of that snapshot, the rebuilder finishes and leaves the
\* shape's attribute unset: once reestablishAssociations has run, no shape holds the
\* bare deserialised value
C15_DanglingLeftUnset ==
    lastOp \in {"annulerLoaded", "retablirLoaded"} =>
        \A i \in 1..Len(scene) :
            IsShape(scene[i]) =>
                /\ (scene[i].mt.k = "val" =>
                        \E j \in 1..Len(scene) : scene[j].id = scene[i].mt.id)
                /\ (scene[i].lmt.k = "val" =>
                        \E j \in 1..Len(scene) : scene[j].id = scene[i].lmt.id)

(***************************************************************************)
(* Properties of what the handlers record                                  *)
(***************************************************************************)
\* C16: an addCircle or addTriangle action, label creation included, appends exactly one
\* snapshot, so that the snapshot a single undo loads is the scene as it was before
\* the action
C16_AddShapeOneSnapshot ==
    [][(/\ pending = <<>>
        /\ lastOp' = "record"
        /\ Len(scene') = Len(scene) + 2
        /\ scene'[Len(scene) + 1].type \in {"circle", "triangle"})
       => /\ history' = enregistrerEtat(history, currentIndex, Serialize(scene')).history
          /\ currentIndex' > 0
          /\ SnapshotView(history'[currentIndex']) = SceneView(scene)]_vars

\* the text updateShapeMeasurements / updateFixedRectangleMeasurement computes for a shape
MeasurementsOf(x) ==
    IF x.type = "circle" THEN CircleMeasurements
    ELSE IF x.type = "triangle" THEN TriangleMeasurements
    ELSE IF x.lmt.k # "none" THEN FixedRectangleMeasurement(x.w)
    ELSE RectMeasurements(x.w)

\* in the snapshot, the shape at position i has its link and the snapshot holds a label
\* showing the shape's computed measurements
RecordedWithLabel(snap, i) ==
    /\ associatedText(snap[i]).k # "none"
    /\ \E j \in 1..Len(snap) :
          snap[j].type = "text" /\ snap[j].text = MeasurementsOf(snap[i])

\* C17: record only after the derived state is recomputed. The snapshot a shape-creating
\* action records (the mouse-up of a drawn rectangle or fixed-height rectangle, the
\* click that adds a circle or a triangle) holds the shape with its link and the label
\* with the computed measurement text, never an empty text or a shape without its link
C17_RecordAfterMeasurements ==
    [][/\ (/\ lastOp' = "record"
           /\ Len(scene') = Len(scene) + 2
           /\ scene'[Len(scene) + 1].type \in {"circle", "triangle"})
          => RecordedWithLabel(history'[currentIndex' + 1], Len(scene) + 1)
       /\ (currentlyDrawing /\ ~currentlyDrawing' /\ lastOp' = "record")
          => \A i \in 1..Len(scene') :
                scene'[i].oid = tempShape.oid
                    => RecordedWithLabel(history'[currentIndex' + 1], i)]_vars

\* C18: during a rectangle drawing gesture no snapshot is recorded on mouse-down or on
\* any mouse-move, and exactly one is recorded at mouse-up
C18_OneRecordPerGesture ==
    [][/\ lastOp' \in {"mouseDown", "mouseMove"} =>
              UNCHANGED <<history, currentIndex, undoDisabled, redoDisabled>>
       /\ (currentlyDrawing /\ ~currentlyDrawing') =>
              LET r == enregistrerEtat(history, currentIndex, Serialize(scene'))
              IN /\ lastOp' = "record"
                 /\ history' = r.history
                 /\ currentIndex' = r.currentIndex]_vars

\* a gesture with a move has just ended: the whole gesture added one snapshot to the one
\* of application start, and it shows the rectangle as the move left it
C18_Witness ==
    /\ lastOp = "record" /\ ~currentlyDrawing /\ tempShape = NoTemp
    /\ history = <<Serialize(<<>>), Serialize(scene)>> /\ currentIndex = 1
    /\ \E i \in 1..Len(scene) : scene[i].type = "rect" /\ scene[i].w = 2 /\ scene[i].lsn # 0

\* the snapshot holds, from position i on, every object of the file, in the file's order
HoldsWholeFile(snap, i, f) ==
    \A j \in 1..Len(f) :
        /\ i + j - 1 <= Len(snap)
        /\ snap[i + j - 1] = Serialize(FromFile(f))[j]

C20_RebuildBeforeRender ==
    lastOp \in {"annulerLoaded", "retablirLoaded", "loaded"} => ~rawRender

(***************************************************************************)
(* Properties of loads and of the codec                                    *)
(***************************************************************************)
\* C21: loading a malformed JSON file ends in an error that leaves the live scene and
\* the ledger, sequence and cursor, unchanged: no record is performed and the scene is
\* not left half-applied
C21_MalformedLoadChangesNothing ==
    [][lastOp' = "loadError" =>
          UNCHANGED <<scene, history, currentIndex, undoDisabled, redoDisabled,
                      pending>>]_vars

\* a malformed file has just been rejected while the scene held a drawable and the
\* ledger more than the initial snapshot
C21_Witness ==
    /\ lastOp = "loadError" /\ loading = <<>>
    /\ scene # <<>> /\ Len(history) >= 2
    /\ history[currentIndex + 1] = Serialize(scene)

\* what an undo or redo makes of a recorded scene: the snapshot of the scene, loaded
RoundTrip(sc) == reestablishAssociations(Deserialize(Serialize(sc)))

\* two scenes agree, drawable by drawable in z-order, in kind (the fixed-height flag
\* included), geometry, text and identifier, and in the identifier each side-channel attribute names
SameDrawables(a, b) ==
    /\ Len(a) = Len(b)
    /\ \A i \in 1..Len(a) :
          /\ a[i].type = b[i].type /\ a[i].text = b[i].text /\ a[i].w = b[i].w
          /\ a[i].fixed = b[i].fixed
          /\ a[i].id = b[i].id
          /\ (a[i].mt.k = "none") = (b[i].mt.k = "none")
          /\ (a[i].lmt.k = "none") = (b[i].lmt.k = "none")
          /\ LinkId(a, a[i].mt) = LinkId(b, b[i].mt)
          /\ LinkId(a, a[i].lmt) = LinkId(b, b[i].lmt)

\* C22: round-trip identity. For any quiescent scene S, recording S, performing a
\* further recorded mutation and undoing it, the load run to completion, yields a scene
\* equal to S in the kind, geometry and style fields and the label identifiers of every
\* drawable, in the same z-order
C22_RoundTripIdentity ==
    (started /\ Quiescent) => SameDrawables(RoundTrip(scene), scene)

\* C23: snapshot lifecycle. The snapshot sequence is changed only by record: undo, redo
\* and the completion of their loads never add, remove, reorder or alter a stored
\* snapshot. A record keeps the snapshots up to the cursor as they are, discards those
\* after it, appends one, and drops at most one snapshot from the front
C23_SnapshotLifecycle ==
    [][/\ lastOp' # "record" => history' = history
       /\ lastOp' = "record" =>
             LET kept == SubSeq(history, 1, currentIndex + 1)
             IN \E k \in {0, 1} :
                   /\ Len(history') = Len(kept) + 1 - k
                   /\ Len(history') >= 1
                   /\ \A j \in 1..(Len(kept) - k) : history'[j] = kept[j + k]
                   /\ history'[Len(history')] = Serialize(scene')]_vars

\* an undo has completed on a ledger that had dropped a snapshot from the front: the
\* ledger is still full and the snapshot after the cursor is still there to redo
C23_Witness ==
    /\ lastOp = "annulerLoaded" /\ shifted
    /\ Len(history) = limit /\ currentIndex = limit - 2
    /\ ~redoDisabled

C25_ModifyRecordsOnce ==
    [][lastOp' = "modified" =>
          /\ history' = enregistrerEtat(history, currentIndex, Serialize(scene')).history
          /\ history' # history]_vars

\* C26: completing a brush or eraser stroke appends exactly one snapshot to the ledger
C26_StrokeRecordsOnce ==
    [][lastOp' \in {"brushStroke", "eraserStroke"} =>
          /\ history' = enregistrerEtat(history, currentIndex, Serialize(scene')).history
          /\ history' # history]_vars

\* C27: after a JSON file load the association rebuilding has run before the record of
\* the load: in the scene the load's callback leaves, every shape whose stored label
\* identifier matches a label of the loaded scene holds a live reference to that label
C27_FileLoadRebuilds ==
    [][(\E i \in 1..Len(loading) :
           /\ loading[i].op = "loadFromJSON" /\ loading[i].stage = "parse"
           /\ loading' = Settled(i))
          => \A k \in 1..Len(scene') :
                IsShape(scene'[k]) =>
                   \A l \in {scene'[k].mt, scene'[k].lmt} :
                      \A j \in 1..Len(scene') :
                         (l.k # "none" /\ scene'[j].id # Undef
                                      /\ scene'[j].id = LinkId(scene', l))
                            => (l.k = "ref" /\ l.oid = scene'[j].oid)]_vars

\* C28: for any interleaving of undo and redo calls with the completions of their loads,
\* completions in any order included, once every started load has completed the live
\* scene equals the snapshot at the cursor
C28_SceneAtCursorOnceLoaded ==
    (pending = <<>> /\ lastOp \in {"annulerLoaded", "retablirLoaded", "loaded"})
        => Serialize(scene) = history[currentIndex + 1]

\* C29: when a recording action runs after an undo or redo call and before the load of
\* that call completes, the scene after the completion still equals the snapshot at the
\* cursor: a late completion never replaces the scene with another snapshot
C29_LateLoadKeepsCursorScene ==
    [][(pending # <<>> /\ pending' = <<>>
           /\ history[currentIndex + 1] # pending[1])
          => SceneView(scene') = SnapshotView(history'[currentIndex' + 1])]_vars

\* C30: in every quiescent state the snapshot at the cursor equals the serialisation of
\* the live scene, label texts and links included
C30_CursorSnapshotIsScene ==
    (started /\ Quiescent) => history[currentIndex + 1] = Serialize(scene)

\* positions of sc in order, as object identities
Oids(sc) == [i \in 1..Len(sc) |-> sc[i].oid]

\* identities of the labels that belong to the shape at position a: the label its
\* attribute refers to and, where the attribute is set and does not refer to a label of
\* the scene, the labels showing the shape's measurements
OwnLabels(sc, a) ==
    LET l == associatedText(sc[a])
    IN IF ~IsShape(sc[a]) \/ l.k = "none" THEN {}
       ELSE IF RefersToLabel(sc, l) THEN {l.oid}
       ELSE {sc[j].oid : j \in {k \in 1..Len(sc) :
                                   sc[k].type = "text" /\ sc[k].text = MeasurementsOf(sc[a])}}

\* sc2 is sc without one selectable drawable and, for a shape, without its labels
DeletedWithLabel(sc, sc2) ==
    \E a \in 1..Len(sc) :
        /\ sc[a].selectable
        /\ Oids(sc2) = SelectSeq(Oids(sc), LAMBDA o : o \notin ({sc[a].oid} \cup OwnLabels(sc, a)))

\* C31: deleting the selected object removes that object and its associated measurement
\* or length label from the scene, nothing else, and appends exactly one snapshot; with
\* no object selected the scene and the ledger are unchanged
C31_DeleteRemovesObjectAndLabel ==
    [][/\ (lastOp' = "record" /\ Len(scene') < Len(scene)) =>
             /\ DeletedWithLabel(scene, scene')
             /\ LET r == enregistrerEtat(history, currentIndex, Serialize(scene'))
                IN history' = r.history /\ currentIndex' = r.currentIndex
       /\ lastOp' = "deleteNoop" => UNCHANGED <<scene, history, currentIndex>>]_vars

\* C32: delete-measurement-text on a selected shape that has a label removes the label
\* from the scene, clears both side-channel attributes of the shape and appends exactly
\* one snapshot; with no label on the selected shape, or nothing selected, the scene and
\* the ledger are unchanged; a following undo restores the label in the scene
C32_DeleteMeasurementText ==
    /\ [][/\ (lastOp' = "record" /\ Len(scene') < Len(scene)) =>
                /\ \E a \in 1..Len(scene) :
                      /\ IsShape(scene[a]) /\ scene[a].selectable
                      /\ OwnLabels(scene, a) # {}
                      /\ Oids(scene') = SelectSeq(Oids(scene),
                                                  LAMBDA o : o \notin OwnLabels(scene, a))
                      /\ \A k \in 1..Len(scene') :
                            scene'[k].oid = scene[a].oid
                               => scene'[k].mt = NoLink /\ scene'[k].lmt = NoLink
                /\ LET r == enregistrerEtat(history, currentIndex, Serialize(scene'))
                   IN history' = r.history /\ currentIndex' = r.currentIndex
          /\ lastOp' = "deleteMeasurementNoop" => UNCHANGED <<scene, history, currentIndex>>]_vars
    /\ []((/\ lastOp = "annulerLoaded" /\ currentIndex + 2 <= Len(history)
           /\ Len(history[currentIndex + 2]) < Len(history[currentIndex + 1]))
             => \E j \in 1..Len(scene) : scene[j].type = "text")

\* C33: after any undo or redo, deleting a selected shape removes from the scene only
\* that shape and the label that belonged to it before the snapshot was taken: no
\* unrelated drawable is removed and the shape's own label is not left behind
C33_DeleteAfterReload ==
    [][(/\ lastOp \in {"annulerLoaded", "retablirLoaded"}
        /\ lastOp' = "record" /\ Len(scene') < Len(scene)
        /\ \E j \in 1..Len(scene) :
              IsShape(scene[j]) /\ \A k \in 1..Len(scene') : scene'[k].oid # scene[j].oid)
          => \E a \in 1..Len(scene) :
                /\ IsShape(scene[a])
                /\ {scene[i].oid : i \in 1..Len(scene)} \ {scene'[i].oid : i \in 1..Len(scene')}
                      = {scene[a].oid} \cup OwnLabels(scene, a)]_vars

\* C34: after any undo or redo a restored shape that has a measurement label keeps the
\* label up to date, as a shape that was never reloaded does: moving or scaling the
\* shape updates the label's text, and removing the shape removes the label
C34_RestoredShapeKeepsLabel ==
    [][/\ lastOp' = "modified" =>
             \A a \in 1..Len(scene) :
                (/\ IsShape(scene[a]) /\ OwnLabels(scene, a) # {}
                 /\ \E k \in 1..Len(scene') :
                       scene'[k].oid = scene[a].oid /\ scene'[k].w # scene[a].w)
                   => \E k, j \in 1..Len(scene') :
                         /\ scene'[k].oid = scene[a].oid
                         /\ scene'[j].oid \in OwnLabels(scene, a)
                         /\ scene'[j].text = MeasurementsOf(scene'[k])
       /\ (lastOp' = "record" /\ Len(scene') < Len(scene))
             => DeletedWithLabel(scene, scene')]_vars

\* C35: undo followed by redo is a round trip. With cursor > 0 and no load in flight,
\* undo then redo, each load run to completion, brings the cursor back to its value,
\* leaves the snapshot sequence as it was and leaves the scene equal to the snapshot at
\* the cursor; the same for redo then undo with the cursor below the tail
C35_UndoRedoRoundTrip ==
    /\ [][/\ lastOp' = "annuler" => currentIndex' = currentIndex - 1 /\ history' = history
          /\ lastOp' = "retablir" => currentIndex' = currentIndex + 1 /\ history' = history
          /\ lastOp' \in {"annulerLoaded", "retablirLoaded"}
                => currentIndex' = currentIndex /\ history' = history
          \* the redo that follows a completed undo is never refused, nor the undo that
          \* follows a completed redo
          /\ (lastOp = "annulerLoaded" /\ lastOp' \in {"retablir", "retablirNoop"})
                => lastOp' = "retablir"
          /\ (lastOp = "retablirLoaded" /\ lastOp' \in {"annuler", "annulerNoop"})
                => lastOp' = "annuler"]_vars
    /\ []((lastOp \in {"annulerLoaded", "retablirLoaded"} /\ pending = <<>>)
             => Serialize(scene) = history[currentIndex + 1])

\* the load of a redo has completed at the newest snapshot, which holds a drawable, and
\* the undo before it had gone below that snapshot
C35_Witness ==
    /\ lastOp = "retablirLoaded" /\ pending = <<>>
    /\ currentIndex = Len(history) - 1 /\ currentIndex >= 2
    /\ scene # <<>> /\ Serialize(scene) = history[currentIndex + 1]

\* C36: drawing-gesture state machine. A mouse-down with no drawing mode selected
\* changes nothing; every rectangle created, with its label, by a mouse-down in drawing
\* mode has, when the gesture state is reset (currentlyDrawing false, drawingMode null,
\* tempShape null), its measurement listeners and is captured by exactly one record,
\* a second mouse-down before any mouse-up included
C36_GestureStateMachine ==
    /\ [][/\ lastOp' = "mouseDown" => drawingMode # "null"
          /\ (currentlyDrawing /\ ~currentlyDrawing') =>
                /\ drawingMode' = "null" /\ tempShape' = NoTemp
                /\ LET r == enregistrerEtat(history, currentIndex, Serialize(scene'))
                   IN history' = r.history /\ currentIndex' = r.currentIndex]_vars
    /\ [](~currentlyDrawing =>
             \A i \in 1..Len(scene) :
                (IsShape(scene[i]) /\ associatedText(scene[i]).k = "ref")
                   => scene[i].lsn = associatedText(scene[i]).oid)

\* C37: clear canvas. When the user confirms, the scene becomes empty and exactly one
\* snapshot, of the empty scene, is appended; the snapshot a following undo loads shows
\* the scene as it was before clearing. When the user declines, the scene and the
\* ledger are unchanged (the step changes no variable)
C37_ClearCanvas ==
    [][(started /\ lastOp' = "record" /\ scene' = <<>>) =>
          /\ LET r == enregistrerEtat(history, currentIndex, Serialize(<<>>))
             IN history' = r.history /\ currentIndex' = r.currentIndex
          /\ currentIndex' >= 1 => SnapshotView(history'[currentIndex']) = SceneView(scene)]_vars

====
